---- MODULE Spec2Model ----
(***************************************************************************)
(* Model of the Consul registration / discovery helpers of common-go.      *)
(*                                                                         *)
(* One process makes one call of the public API: a registration            *)
(* (RegisterConsulService, or one of the two revisions of                  *)
(* RegisterServiceWithConsul) or a discovery query.  The health-check      *)
(* goroutine started by WithHTTPHealthCheck runs concurrently with the     *)
(* caller.  Strings read from the environment are sequences of characters  *)
(* so that strings.TrimSpace and strconv.Atoi are computed, not assumed.   *)
(***************************************************************************)
EXTENDS Integers, Sequences, FiniteSets, TLC

VARIABLES
    api,             \* the public function the caller invoked
    options,         \* the options ...Option argument of the call
    envServicePort,  \* value of PRODUCT_SERVICE_PORT ("" when unset)
    envHealthPort,   \* value of PRODUCT_HEALTH_PORT ("" when unset)
    envChanges,      \* number of changes made to the environment from outside
    pc,              \* position of the calling goroutine
    cfg,             \* *config built by defaultConfig and the options
    registration,    \* *api.AgentServiceRegistration being built
    next,            \* index of the next registration modifier to run
    applied,         \* history: the registration modifiers run so far, in order
    handlers,        \* patterns registered on http.DefaultServeMux
    listeners,       \* the goroutines started by the health-check modifier
    submitted,       \* registrations accepted by consul.Agent().ServiceRegister
    services,        \* what consul.Health().Service answers (passing only)
    ret,             \* value returned by the discovery function
    fatal            \* "" while the process runs, else why it terminated

vars == <<api, options, envServicePort, envHealthPort, envChanges, pc, cfg,
          registration, next, applied, handlers, listeners, submitted,
          services, ret, fatal>>

regVars == <<cfg, registration, next, applied, handlers, listeners, submitted>>
queryVars == <<services, ret>>
envVars == <<envServicePort, envHealthPort, envChanges>>

----------------------------------------------------------------------------
(* Bounds of the model *)

MaxOptions == 2
MaxServices == 2
MaxEnvChanges == 1

(* Program constants *)

BaseDefaultPort == 8100
LegacyHealthPort == 8101

ServiceName == "svc"
OSHostname == "node-1"
HealthPattern == "/healthcheck"

----------------------------------------------------------------------------
(* strings.TrimSpace and strconv.Atoi on sequences of characters *)

Spaces == {" ", "\t"}
DigitChars == {"0", "1", "2", "3", "4", "5", "6", "7", "8", "9"}

DigitVal(c) ==
    CASE c = "0" -> 0 [] c = "1" -> 1 [] c = "2" -> 2 [] c = "3" -> 3
      [] c = "4" -> 4 [] c = "5" -> 5 [] c = "6" -> 6 [] c = "7" -> 7
      [] c = "8" -> 8 [] c = "9" -> 9

RECURSIVE TrimLeft(_)
TrimLeft(s) ==
    IF Len(s) > 0 /\ Head(s) \in Spaces THEN TrimLeft(Tail(s)) ELSE s

RECURSIVE TrimRight(_)
TrimRight(s) ==
    IF Len(s) > 0 /\ s[Len(s)] \in Spaces
    THEN TrimRight(SubSeq(s, 1, Len(s) - 1))
    ELSE s

TrimSpace(s) == TrimRight(TrimLeft(s))

RECURSIVE ParseUint(_, _)
ParseUint(s, acc) ==
    IF Len(s) = 0 THEN acc ELSE ParseUint(Tail(s), 10 * acc + DigitVal(Head(s)))

AllDigits(s) == Len(s) > 0 /\ \A k \in 1..Len(s) : s[k] \in DigitChars

\* strconv.Atoi: an optional sign followed by at least one decimal digit;
\* anything else (also surrounding blanks) is a syntax error.
Atoi(s) ==
    LET signed == Len(s) > 0 /\ Head(s) \in {"+", "-"}
        digits == IF signed THEN Tail(s) ELSE s
    IN  IF AllDigits(digits)
        THEN [err |-> FALSE,
              val |-> IF signed /\ Head(s) = "-"
                      THEN 0 - ParseUint(digits, 0)
                      ELSE ParseUint(digits, 0)]
        ELSE [err |-> TRUE, val |-> 0]

----------------------------------------------------------------------------
(* Environment resolver *)

PanicServicePort == "panic: invalid format for the environment variable PRODUCT_SERVICE_PORT"
PanicHealthPort == "panic: invalid format for the environment variable PRODUCT_HEALTH_PORT"

\* Mutant: a malformed override silently falls back to the default.
port_fallback(defaultPort) ==
    LET p == envServicePort
    IN  IF Len(TrimSpace(p)) = 0 \/ Atoi(p).err
        THEN [panic |-> FALSE, val |-> defaultPort]
        ELSE [panic |-> FALSE, val |-> Atoi(p).val]

port(defaultPort) ==
    LET p == envServicePort
    IN  IF Len(TrimSpace(p)) = 0
        THEN [panic |-> FALSE, val |-> defaultPort]
        ELSE IF Atoi(p).err
             THEN [panic |-> TRUE, val |-> 0]
             ELSE [panic |-> FALSE, val |-> Atoi(p).val]

healthPort(defaultPort) ==
    LET p == envHealthPort
    IN  IF Len(TrimSpace(p)) = 0
        THEN [panic |-> FALSE, val |-> defaultPort]
        ELSE IF Atoi(p).err
             THEN [panic |-> TRUE, val |-> 0]
             ELSE [panic |-> FALSE, val |-> Atoi(p).val]

----------------------------------------------------------------------------
(* Registration descriptor and its health check *)

NoURL == [host |-> "", port |-> 0, path |-> ""]

\* fmt.Sprintf("http://%s:%d/healthcheck", address, p)
HealthURL(address, p) == [host |-> address, port |-> p, path |-> HealthPattern]

NilCheck == [nil |-> TRUE, HTTP |-> NoURL, Interval |-> "", Timeout |-> "", TTL |-> ""]
NewCheck == [nil |-> FALSE, HTTP |-> NoURL, Interval |-> "", Timeout |-> "", TTL |-> ""]

NewRegistration == [ID |-> "", Name |-> "", Address |-> "", Port |-> 0, Check |-> NilCheck]

----------------------------------------------------------------------------
(* Options *)

NoModifier == [fn |-> "", defaultPort |-> 0]

\* The closure WithHTTPHealthCheck hands to WithRegistrationModifier.
HTTPHealthCheckModifier(defaultPort) == [fn |-> "httpHealthCheck", defaultPort |-> defaultPort]

\* Registration modifiers a caller may write itself.
AltAddress == "10.0.0.9"
CallerModifiers ==
    {[fn |-> f, defaultPort |-> 0] : f \in {"noop", "setAddress", "setPort", "setCheck"}}

DefaultPortArgs == {9000, -1}
HealthPortArgs == {9200}

Options ==
    {[kind |-> "WithDefaultPort", defaultPort |-> p, modifier |-> NoModifier] :
        p \in DefaultPortArgs}
    \cup {[kind |-> "WithHTTPHealthCheck", defaultPort |-> p, modifier |-> NoModifier] :
        p \in HealthPortArgs}
    \cup {[kind |-> "WithRegistrationModifier", defaultPort |-> 0, modifier |-> m] :
        m \in CallerModifiers}

OptionLists == UNION {[1..n -> Options] : n \in 0..MaxOptions}

\* Mutant: a later WithDefaultPort does not replace an earlier one.
WithDefaultPort_first(defaultPort, o) ==
    IF o.defaultPort = 0 \/ o.defaultPort = BaseDefaultPort
    THEN [o EXCEPT !.defaultPort = defaultPort]
    ELSE o

WithDefaultPort(defaultPort, o) == [o EXCEPT !.defaultPort = defaultPort]

\* Mutant: the modifier replaces the list instead of being appended to it.
WithRegistrationModifier_replace(modifier, o) ==
    [o EXCEPT !.registrationModifiers = <<modifier>>]

WithRegistrationModifier(modifier, o) ==
    [o EXCEPT !.registrationModifiers = Append(@, modifier)]

WithHTTPHealthCheck(defaultPort, o) ==
    WithRegistrationModifier(HTTPHealthCheckModifier(defaultPort), o)

defaultConfig ==
    WithDefaultPort(BaseDefaultPort, [defaultPort |-> 0, registrationModifiers |-> <<>>])

ApplyOption(opt, o) ==
    CASE opt.kind = "WithDefaultPort" -> WithDefaultPort(opt.defaultPort, o)
      [] opt.kind = "WithHTTPHealthCheck" -> WithHTTPHealthCheck(opt.defaultPort, o)
      [] opt.kind = "WithRegistrationModifier" -> WithRegistrationModifier(opt.modifier, o)

\* for _, o := range options { o(cfg) }
RECURSIVE ApplyOptions(_, _)
ApplyOptions(opts, o) ==
    IF Len(opts) = 0 THEN o ELSE ApplyOptions(Tail(opts), ApplyOption(Head(opts), o))

\* Mutant: the automatic health check is added whatever the modifier list holds.
NeedsAutoHealthCheck_always(o) == TRUE

\* Backwards compatibility of the variadic RegisterServiceWithConsul.
NeedsAutoHealthCheck(o) == Len(o.registrationModifiers) = 0

----------------------------------------------------------------------------
(* Registration modifiers *)

\* What a caller-written modifier does to the descriptor it is handed.
ApplyCallerModifier(m, r) ==
    CASE m.fn = "noop" -> r
      [] m.fn = "setAddress" -> [r EXCEPT !.Address = AltAddress]
      [] m.fn = "setPort" -> [r EXCEPT !.Port = 7]
      [] m.fn = "setCheck" -> [r EXCEPT !.Check = [NewCheck EXCEPT !.TTL = "30s"]]

\* The descriptor as the health-check modifier leaves it when nothing panics.
HealthChecked(r, p) ==
    [r EXCEPT !.Check = [NewCheck EXCEPT !.HTTP = HealthURL(r.Address, p),
                                         !.Interval = "5s",
                                         !.Timeout = "3s"]]

\* Mutant: the goroutine is started but the check is never written.
WriteHealthCheck_skip(r, p) == r

WriteHealthCheck(r, p) == HealthChecked(r, p)

NewListener(defaultPort) == [defaultPort |-> defaultPort, state |-> "spawned", port |-> 0]

Die(reason) == fatal' = reason /\ pc' = "exit"

IsRegisterAPI ==
    api \in {"RegisterConsulService", "RegisterServiceWithConsul",
             "RegisterServiceWithConsul(options)"}

----------------------------------------------------------------------------
(* The calling goroutine: registration *)

\* cfg := defaultConfig(); the options loop; in the variadic revision of
\* RegisterServiceWithConsul the automatic health check; in the latest
\* revision RegisterServiceWithConsul passes WithHTTPHealthCheck(8101).
Configured ==
    LET passed == IF api = "RegisterServiceWithConsul"
                  THEN <<[kind |-> "WithHTTPHealthCheck",
                          defaultPort |-> LegacyHealthPort,
                          modifier |-> NoModifier]>>
                  ELSE options
        o == ApplyOptions(passed, defaultConfig)
    IN  IF api = "RegisterServiceWithConsul(options)" /\ NeedsAutoHealthCheck(o)
        THEN WithHTTPHealthCheck(LegacyHealthPort, o)
        ELSE o

Configure ==
    /\ fatal = "" /\ IsRegisterAPI /\ pc = "start"
    /\ cfg' = Configured
    /\ pc' = "connect"
    /\ UNCHANGED <<api, options, envVars, registration, next, applied, handlers,
                   listeners, submitted, queryVars, fatal>>

\* connect(): api.NewClient may fail, which is fatal.
ConnectOK ==
    /\ fatal = "" /\ IsRegisterAPI /\ pc = "connect"
    /\ pc' = "setup"
    /\ UNCHANGED <<api, options, envVars, regVars, queryVars, fatal>>

ConnectFails ==
    /\ fatal = "" /\ IsRegisterAPI /\ pc = "connect"
    /\ Die("could not create consul client")
    /\ UNCHANGED <<api, options, envVars, regVars, queryVars>>

\* Mutant: the advertised address is taken from the service name.
BaseRegistration_name(id, name, address, p) ==
    [NewRegistration EXCEPT !.ID = id, !.Name = name, !.Address = name, !.Port = p]

\* registration.ID, .Name, .Address, .Port of the new descriptor.
BaseRegistration(id, name, address, p) ==
    [NewRegistration EXCEPT !.ID = id, !.Name = name, !.Address = address, !.Port = p]

\* Hostname(): os.Hostname may fail, which is fatal.
HostnameFails ==
    /\ fatal = "" /\ IsRegisterAPI /\ pc = "setup"
    /\ Die("retrieving Hostname failed")
    /\ UNCHANGED <<api, options, envVars, regVars, queryVars>>

Setup ==
    /\ fatal = "" /\ IsRegisterAPI /\ pc = "setup"
    /\ LET p == port(cfg.defaultPort)
       IN  IF p.panic
           THEN /\ registration' = BaseRegistration(OSHostname, ServiceName, OSHostname, 0)
                /\ Die(PanicServicePort)
                /\ UNCHANGED next
           ELSE /\ registration' = BaseRegistration(OSHostname, ServiceName, OSHostname, p.val)
                /\ pc' = "modifiers"
                /\ next' = 1
                /\ UNCHANGED fatal
    /\ UNCHANGED <<api, options, envVars, cfg, applied, handlers, listeners,
                   submitted, queryVars>>

\* m(registration) for a modifier written by the caller.
ApplyModifier ==
    /\ fatal = "" /\ IsRegisterAPI /\ pc = "modifiers"
    /\ next <= Len(cfg.registrationModifiers)
    /\ cfg.registrationModifiers[next].fn # "httpHealthCheck"
    /\ registration' = ApplyCallerModifier(cfg.registrationModifiers[next], registration)
    /\ applied' = Append(applied, cfg.registrationModifiers[next])
    /\ next' = next + 1
    /\ UNCHANGED <<api, options, envVars, pc, cfg, handlers, listeners, submitted,
                   queryVars, fatal>>

\* m(registration) for the closure of WithHTTPHealthCheck: the check is
\* allocated, healthPort may panic, http.HandleFunc panics on a pattern that
\* is already registered, and only then is the goroutine started.
ApplyHealthCheck ==
    /\ fatal = "" /\ IsRegisterAPI /\ pc = "modifiers"
    /\ next <= Len(cfg.registrationModifiers)
    /\ cfg.registrationModifiers[next].fn = "httpHealthCheck"
    /\ LET m == cfg.registrationModifiers[next]
           hp == healthPort(m.defaultPort)
       IN  /\ applied' = Append(applied, m)
           /\ IF hp.panic
              THEN /\ registration' = [registration EXCEPT !.Check = NewCheck]
                   /\ Die(PanicHealthPort)
                   /\ UNCHANGED <<next, handlers, listeners>>
              ELSE IF HealthPattern \in handlers
              THEN /\ registration' = WriteHealthCheck(registration, hp.val)
                   /\ Die("panic: http: multiple registrations for /healthcheck")
                   /\ UNCHANGED <<next, handlers, listeners>>
              ELSE /\ registration' = WriteHealthCheck(registration, hp.val)
                   /\ handlers' = handlers \cup {HealthPattern}
                   /\ listeners' = Append(listeners, NewListener(m.defaultPort))
                   /\ next' = next + 1
                   /\ UNCHANGED <<pc, fatal>>
    /\ UNCHANGED <<api, options, envVars, cfg, submitted, queryVars>>

\* consul.Agent().ServiceRegister(registration)
ServiceRegister ==
    /\ fatal = "" /\ IsRegisterAPI /\ pc = "modifiers"
    /\ next > Len(cfg.registrationModifiers)
    /\ submitted' = Append(submitted, registration)
    /\ pc' = "returned"
    /\ UNCHANGED <<api, options, envVars, cfg, registration, next, applied,
                   handlers, listeners, queryVars, fatal>>

ServiceRegisterFails ==
    /\ fatal = "" /\ IsRegisterAPI /\ pc = "modifiers"
    /\ next > Len(cfg.registrationModifiers)
    /\ Die("registering to consul failed")
    /\ UNCHANGED <<api, options, envVars, regVars, queryVars>>

----------------------------------------------------------------------------
(* The health-check goroutine *)

\* net.Listen refuses ":<p>" for a port outside 0..65535.
CannotBind(p) == p \notin 0..65535

\* http.ListenAndServe(fmt.Sprintf(":%d", healthPort(defaultPort)), nil):
\* the port is resolved again; the bind succeeds or returns an error.
ListenAndServe(k) ==
    /\ fatal = "" /\ listeners[k].state = "spawned"
    /\ LET hp == healthPort(listeners[k].defaultPort)
       IN  IF hp.panic
           THEN /\ Die(PanicHealthPort)
                /\ UNCHANGED listeners
           ELSE /\ \E ok \in BOOLEAN :
                      listeners' = [listeners EXCEPT ![k] =
                          [@ EXCEPT !.port = hp.val,
                                    !.state = IF ok /\ ~CannotBind(hp.val)
                                              THEN "listening" ELSE "failed"]]
                /\ UNCHANGED <<pc, fatal>>
    /\ UNCHANGED <<api, options, envVars, cfg, registration, next, applied,
                   handlers, submitted, queryVars>>

\* A serving listener returns with an error.
ListenerStops(k) ==
    /\ fatal = "" /\ listeners[k].state = "listening"
    /\ listeners' = [listeners EXCEPT ![k] = [@ EXCEPT !.state = "failed"]]
    /\ UNCHANGED <<api, options, envVars, pc, cfg, registration, next, applied,
                   handlers, submitted, queryVars, fatal>>

\* Mutant: the goroutine returns without ending the process.
ListenerFatal_silent(k) ==
    /\ fatal = "" /\ listeners[k].state = "failed"
    /\ listeners' = [listeners EXCEPT ![k] = [@ EXCEPT !.state = "returned"]]
    /\ UNCHANGED <<api, options, envVars, pc, cfg, registration, next, applied,
                   handlers, submitted, queryVars, fatal>>

\* log.Fatalf("healthcheck webserver failed %v", err)
ListenerFatal(k) ==
    /\ fatal = "" /\ listeners[k].state = "failed"
    /\ Die("healthcheck webserver failed")
    /\ UNCHANGED <<api, options, envVars, regVars, queryVars>>

----------------------------------------------------------------------------
(* Discovery *)

NoEntry == [nil |-> TRUE, node |-> ""]
Entry(e) == [nil |-> FALSE, node |-> e]
NotReturned == [done |-> FALSE, list |-> <<>>, entry |-> NoEntry]

\* Mutant: an index one past the end may be drawn.
Intn_inclusive(n) == 0..n

\* rand.Intn(n): an integer in [0, n)
Intn(n) == 0..(n - 1)

\* s[i] of a Go slice: panics when i is out of range.
Index(s, i) ==
    IF i >= 0 /\ i < Len(s)
    THEN [panic |-> FALSE, val |-> s[i + 1]]
    ELSE [panic |-> TRUE, val |-> ""]

\* connect() or consul.Health().Service(...) fails: fatal in both functions.
QueryFails ==
    /\ fatal = "" /\ ~IsRegisterAPI /\ pc = "start"
    /\ \E reason \in {"could not create consul client", "searching for service failed"} :
          Die(reason)
    /\ UNCHANGED <<api, options, envVars, regVars, queryVars>>

GetServicesWithConsul ==
    /\ fatal = "" /\ api = "GetServicesWithConsul" /\ pc = "start"
    /\ ret' = [done |-> TRUE, list |-> services, entry |-> NoEntry]
    /\ pc' = "returned"
    /\ UNCHANGED <<api, options, envVars, regVars, services, fatal>>

GetRandomServiceWithConsul ==
    /\ fatal = "" /\ api = "GetRandomServiceWithConsul" /\ pc = "start"
    /\ IF Len(services) = 0
       THEN /\ ret' = [done |-> TRUE, list |-> <<>>, entry |-> NoEntry]
            /\ pc' = "returned"
            /\ UNCHANGED fatal
       ELSE \E i \in Intn(Len(services)) :
              LET x == Index(services, i)
              IN  IF x.panic
                  THEN /\ Die("panic: runtime error: index out of range")
                       /\ UNCHANGED ret
                  ELSE /\ ret' = [done |-> TRUE, list |-> <<>>, entry |-> Entry(x.val)]
                       /\ pc' = "returned"
                       /\ UNCHANGED fatal
    /\ UNCHANGED <<api, options, envVars, regVars, services>>

----------------------------------------------------------------------------
(* The environment, changed from outside the library *)

ServiceEnvValues == {<<>>, <<" ">>, <<"7", "0">>, <<"-", "3">>, <<" ", "7">>, <<"x">>}
HealthEnvValues == {<<>>, <<"9", "5">>, <<"9", "x">>}

\* os.Setenv("PRODUCT_HEALTH_PORT", v) by the host program while the
\* registration call or its goroutine is running.
SetHealthEnv ==
    /\ fatal = "" /\ IsRegisterAPI
    /\ envChanges < MaxEnvChanges
    /\ \E v \in HealthEnvValues \ {envHealthPort} : envHealthPort' = v
    /\ envChanges' = envChanges + 1
    /\ UNCHANGED <<api, options, envServicePort, pc, regVars, queryVars, fatal>>

----------------------------------------------------------------------------
(* Specifications *)

NodeNames == {"a", "b", "c"}
ServiceLists == UNION {[1..n -> NodeNames] : n \in 0..MaxServices}

InitCommon ==
    /\ envChanges = 0
    /\ pc = "start"
    /\ cfg = [defaultPort |-> 0, registrationModifiers |-> <<>>]
    /\ registration = NewRegistration
    /\ next = 0
    /\ applied = <<>>
    /\ handlers = {}
    /\ listeners = <<>>
    /\ submitted = <<>>
    /\ ret = NotReturned
    /\ fatal = ""

InitRegister ==
    /\ api \in {"RegisterConsulService", "RegisterServiceWithConsul",
                "RegisterServiceWithConsul(options)"}
    /\ options \in (IF api = "RegisterServiceWithConsul" THEN {<<>>} ELSE OptionLists)
    /\ envServicePort \in ServiceEnvValues
    /\ envHealthPort \in HealthEnvValues
    /\ services = <<>>

InitQuery ==
    /\ api \in {"GetRandomServiceWithConsul", "GetServicesWithConsul"}
    /\ options = <<>>
    /\ envServicePort = <<>>
    /\ envHealthPort = <<>>
    /\ services \in ServiceLists

Init == InitCommon /\ (InitRegister \/ InitQuery)

Next ==
    \/ Configure
    \/ ConnectOK
    \/ ConnectFails
    \/ HostnameFails
    \/ Setup
    \/ ApplyModifier
    \/ ApplyHealthCheck
    \/ ServiceRegister
    \/ ServiceRegisterFails
    \/ \E k \in 1..Len(listeners) : ListenAndServe(k)
    \/ \E k \in 1..Len(listeners) : ListenerStops(k)
    \/ \E k \in 1..Len(listeners) : ListenerFatal(k)
    \/ QueryFails
    \/ GetServicesWithConsul
    \/ GetRandomServiceWithConsul

Spec == Init /\ [][Next]_vars

\* The Go scheduler runs the goroutine on: log.Fatalf follows the return of
\* http.ListenAndServe unconditionally.
SpecLive == Spec /\ WF_vars(\E k \in 1..Len(listeners) : ListenerFatal(k))

NextEnv == Next \/ SetHealthEnv

SpecEnv == Init /\ [][NextEnv]_vars

----------------------------------------------------------------------------
(* Helpers of the properties: what the call was asked to do, read off its
   arguments and the environment alone *)

RECURSIVE ModifiersOf(_)
ModifiersOf(opts) ==
    IF Len(opts) = 0 THEN <<>>
    ELSE LET o == Head(opts)
             own == CASE o.kind = "WithDefaultPort" -> <<>>
                      [] o.kind = "WithHTTPHealthCheck" ->
                            <<[fn |-> "httpHealthCheck", defaultPort |-> o.defaultPort]>>
                      [] o.kind = "WithRegistrationModifier" -> <<o.modifier>>
         IN  own \o ModifiersOf(Tail(opts))

AutoHealthCheck == <<[fn |-> "httpHealthCheck", defaultPort |-> 8101]>>

ExpectedModifiers ==
    CASE api = "RegisterServiceWithConsul" -> AutoHealthCheck
      [] api = "RegisterServiceWithConsul(options)" ->
            IF ModifiersOf(options) = <<>> THEN AutoHealthCheck ELSE ModifiersOf(options)
      [] OTHER -> ModifiersOf(options)

Has(mods, f) == \E k \in 1..Len(mods) : mods[k].fn = f

RECURSIVE LastDefaultPort(_)
LastDefaultPort(opts) ==
    IF Len(opts) = 0 THEN 8100
    ELSE IF opts[Len(opts)].kind = "WithDefaultPort"
         THEN opts[Len(opts)].defaultPort
         ELSE LastDefaultPort(SubSeq(opts, 1, Len(opts) - 1))

Blank(s) == \A k \in 1..Len(s) : s[k] \in Spaces
Malformed(s) == ~Blank(s) /\ Atoi(s).err

Returned == IsRegisterAPI /\ pc = "returned" /\ Len(submitted) = 1

HasHTTPCheck(r) == ~r.Check.nil /\ r.Check.HTTP.path = "/healthcheck"

----------------------------------------------------------------------------
(* C1 *)

ZeroOptionHealthCheck ==
    /\ HasHTTPCheck(submitted[1])
    /\ Blank(envHealthPort) => submitted[1].Check.HTTP.port = 8101
    /\ listeners # <<>>

\* C1 (as amended): a registration made through RegisterServiceWithConsul
\* with zero options has an HTTP health check whose port is 8101 when the
\* health-port variable is unset; a registration with a non-empty modifier
\* list gets no automatic health check: it has a healthCheck only if one of
\* the listed modifiers writes one, a listener only if one of them is a
\* health-check modifier, and neither for a single no-op modifier.
C1_AutoHealthCheck ==
    Returned =>
      /\ (api # "RegisterConsulService" /\ options = <<>>) => ZeroOptionHealthCheck
      /\ (api # "RegisterServiceWithConsul" /\ ModifiersOf(options) # <<>>) =>
            /\ submitted[1].Check.nil <=>
                  ~(Has(ModifiersOf(options), "httpHealthCheck")
                      \/ Has(ModifiersOf(options), "setCheck"))
            /\ listeners = <<>> <=> ~Has(ModifiersOf(options), "httpHealthCheck")
      /\ (api # "RegisterServiceWithConsul"
            /\ ModifiersOf(options) = <<[fn |-> "noop", defaultPort |-> 0]>>) =>
            submitted[1].Check.nil /\ listeners = <<>>

C1_Witness ==
    /\ Returned /\ api = "RegisterServiceWithConsul(options)" /\ options = <<>>
    /\ envHealthPort = <<>>
    /\ submitted[1].Check.HTTP.port = 8101
    /\ listeners # <<>>

\* C1 as stated (its zero-option half read of RegisterServiceWithConsul): zero
\* options give a health check on 8101, and every non-empty modifier list
\* gives no healthCheck and no listener.
C1_Original ==
    Returned =>
      /\ (api # "RegisterConsulService" /\ options = <<>>) => ZeroOptionHealthCheck
      /\ ModifiersOf(options) # <<>> =>
            submitted[1].Check.nil /\ listeners = <<>>

----------------------------------------------------------------------------
(* C2 *)

PortAsClaimed(r) ==
    \/ ~Atoi(envServicePort).err /\ r.Port = Atoi(envServicePort).val
    \/ Atoi(envServicePort).err /\ Blank(envServicePort)
         /\ r.Port = LastDefaultPort(options)

\* C2 (as amended): for every sequence of options none of whose registration
\* modifiers overwrites the port, and every environment, the port of the built
\* registration is the integer value of the service-port variable when that is
\* a valid integer, else (unset or blank) the argument of the last
\* WithDefaultPort, else 8100.
C2_PortResolution ==
    (Returned /\ ~Has(ModifiersOf(options), "setPort")) => PortAsClaimed(submitted[1])

C2_Witness ==
    /\ Returned /\ Len(options) = 2
    /\ options[1].kind = "WithDefaultPort" /\ options[2].kind = "WithDefaultPort"
    /\ options[1].defaultPort # options[2].defaultPort
    /\ Blank(envServicePort)
    /\ submitted[1].Port = options[2].defaultPort

\* C2 as stated: for every sequence of options.
C2_Original == Returned => PortAsClaimed(submitted[1])

----------------------------------------------------------------------------
(* C3 *)

InstallsHealthCheck == Has(ExpectedModifiers, "httpHealthCheck")

\* C3 (as amended): when the service-port variable is malformed, or the
\* health-port variable is malformed and a health-check modifier is in the
\* modifier list, the call ends in a panic: no default port is used, no
\* modifier after the offending read runs, nothing is submitted.
C3_MalformedOverrideIsFatal ==
    /\ (IsRegisterAPI /\ Malformed(envServicePort)) =>
          /\ pc \in {"start", "connect", "setup", "exit"}
          /\ registration.Port = 0
          /\ submitted = <<>>
          /\ (pc = "exit" /\ registration.ID # "") => fatal = PanicServicePort
    /\ (IsRegisterAPI /\ Malformed(envHealthPort) /\ InstallsHealthCheck) =>
          /\ pc # "returned"
          /\ submitted = <<>>
          /\ listeners = <<>>
          /\ Has(applied, "httpHealthCheck") =>
                fatal = PanicHealthPort /\ registration.Check.HTTP = NoURL

C3_Witness ==
    /\ Malformed(envHealthPort) /\ ~Malformed(envServicePort)
    /\ Has(applied, "httpHealthCheck")
    /\ fatal = PanicHealthPort
    /\ submitted = <<>>

\* C3 as stated: a malformed service-port or health-port variable always
\* ends the registration without a submission.
C3_Original ==
    (IsRegisterAPI /\ (Malformed(envServicePort) \/ Malformed(envHealthPort))) =>
        pc # "returned" /\ submitted = <<>>

----------------------------------------------------------------------------
(* C4 *)

\* C4 (as amended): in every registration submitted, for any sequence of
\* options none of whose registration modifiers overwrites the address, id and
\* address both equal the hostname; whatever the options, both equal the
\* hostname when the first modifier is about to run.
C4_Identity ==
    /\ (Returned /\ ~Has(ModifiersOf(options), "setAddress")) =>
          submitted[1].ID = OSHostname /\ submitted[1].Address = OSHostname
    /\ (IsRegisterAPI /\ pc = "modifiers" /\ next = 1) =>
          registration.ID = OSHostname /\ registration.Address = OSHostname

C4_Witness ==
    /\ Returned /\ Len(applied) = 2 /\ ~Has(applied, "setAddress")
    /\ submitted[1].ID = OSHostname /\ submitted[1].Address = OSHostname

\* C4 as stated: for any sequence of options, arbitrary modifiers included.
C4_Original ==
    Returned => submitted[1].ID = OSHostname /\ submitted[1].Address = OSHostname

----------------------------------------------------------------------------
(* C5 *)

\* C5: every registration submitted to the registry has a non-negative port.
C5_PortNonNegative == \A k \in 1..Len(submitted) : submitted[k].Port >= 0

----------------------------------------------------------------------------
(* C6 *)

Folded(m, r) ==
    IF m.fn = "httpHealthCheck"
    THEN [r EXCEPT !.Check = [nil |-> FALSE,
                              HTTP |-> [host |-> r.Address,
                                        port |-> IF Blank(envHealthPort)
                                                 THEN m.defaultPort
                                                 ELSE Atoi(envHealthPort).val,
                                        path |-> "/healthcheck"],
                              Interval |-> "5s", Timeout |-> "3s", TTL |-> ""]]
    ELSE ApplyCallerModifier(m, r)

RECURSIVE FoldLeft(_, _)
FoldLeft(mods, r) ==
    IF Len(mods) = 0 THEN r ELSE FoldLeft(Tail(mods), Folded(Head(mods), r))

BaseDescriptor ==
    [ID |-> OSHostname, Name |-> "svc", Address |-> OSHostname,
     Port |-> IF Blank(envServicePort) THEN LastDefaultPort(options)
              ELSE Atoi(envServicePort).val,
     Check |-> NilCheck]

CheckWriters(mods) ==
    {k \in 1..Len(mods) : mods[k].fn \in {"httpHealthCheck", "setCheck"}}

Max(S) == CHOOSE x \in S : \A y \in S : y <= x

\* C6: the modifiers run exactly once each, in the order their options were
\* given, after id, address, name and port are set: the submitted descriptor
\* is the left-to-right fold of the modifier list over the base descriptor, no
\* earlier modifier is dropped, the healthCheck is the one written by the last
\* modifier that writes it, and the URL of a health-check modifier carries the
\* address as it was when that modifier ran.
C6_ModifierFold ==
    /\ (IsRegisterAPI /\ pc \in {"modifiers", "returned"}) =>
          /\ cfg.registrationModifiers = ExpectedModifiers
          /\ applied = SubSeq(ExpectedModifiers, 1, Len(applied))
    /\ Returned =>
          /\ applied = ExpectedModifiers
          /\ submitted[1] = FoldLeft(ExpectedModifiers, BaseDescriptor)
          /\ LET w == CheckWriters(ExpectedModifiers)
             IN  IF w = {} THEN submitted[1].Check.nil
                 ELSE IF ExpectedModifiers[Max(w)].fn = "setCheck"
                 THEN submitted[1].Check.TTL = "30s" /\ submitted[1].Check.HTTP = NoURL
                 ELSE /\ submitted[1].Check.TTL = ""
                      /\ submitted[1].Check.HTTP.host =
                            IF \E j \in 1..(Max(w) - 1) :
                                   ExpectedModifiers[j].fn = "setAddress"
                            THEN AltAddress ELSE OSHostname

C6_Witness ==
    /\ Returned /\ Len(applied) = 2
    /\ applied[1].fn = "setAddress" /\ applied[2].fn = "httpHealthCheck"
    /\ submitted[1].Check.HTTP.host = AltAddress

----------------------------------------------------------------------------
(* C7 *)

ListenerDead == \E k \in 1..Len(listeners) : listeners[k].state # "spawned" /\ listeners[k].state # "listening"

HealthChecksApplied == Cardinality({k \in 1..Len(applied) : applied[k].fn = "httpHealthCheck"})

\* C7: once a health-check listener has returned (it failed to bind or it
\* stopped serving) the process terminates fatally, and a second installation
\* of the health check in the process is fatal at once.
C7_DeadListenerIsFatal ==
    /\ [](HealthChecksApplied >= 2 => fatal # "")
    /\ (ListenerDead ~> fatal # "")

C7_Witness ==
    /\ fatal = "healthcheck webserver failed"
    /\ \E k \in 1..Len(listeners) : listeners[k].state = "failed"
    /\ submitted # <<>>

----------------------------------------------------------------------------
(* C8 *)

\* C8: for N > 0 instances the random-instance query returns one of them; for
\* an empty list it returns the absent value; it never fails on the list.
C8_RandomInstance ==
    api = "GetRandomServiceWithConsul" =>
      /\ fatal # "panic: runtime error: index out of range"
      /\ pc = "returned" =>
            /\ ret.done
            /\ Len(services) > 0 =>
                  ~ret.entry.nil /\ \E k \in 1..Len(services) : services[k] = ret.entry.node
            /\ Len(services) = 0 => ret.entry.nil

C8_Witness ==
    /\ api = "GetRandomServiceWithConsul" /\ pc = "returned"
    /\ Len(services) = 2 /\ services[1] # services[2]
    /\ ret.entry.node = services[2]

----------------------------------------------------------------------------
(* C9 *)

ListenerStarts == Len(listeners') > Len(listeners)

\* C9 (as amended): the listener is started only after id, name, address,
\* port and the health check of its own modifier are written, and once it has
\* started the descriptor is changed only by a registration modifier that
\* follows the health-check modifier in the list.
C9_ListenerAfterOwnCheck ==
    [][/\ ListenerStarts =>
            /\ pc = "modifiers"
            /\ registration'.ID # "" /\ registration'.Name # ""
            /\ registration'.Address # ""
            /\ HasHTTPCheck(registration')
       /\ (listeners # <<>> /\ registration' # registration) =>
            /\ pc = "modifiers" /\ next <= Len(cfg.registrationModifiers)
            /\ applied' = Append(applied, cfg.registrationModifiers[next])
            /\ \E j \in 1..(next - 1) : cfg.registrationModifiers[j].fn = "httpHealthCheck"
      ]_vars

C9_Witness ==
    /\ listeners # <<>> /\ Len(applied) = 2
    /\ applied[1].fn = "httpHealthCheck" /\ applied[2].fn = "setAddress"
    /\ registration.Address = AltAddress
    /\ registration.Check.HTTP.host = OSHostname

\* C9 as stated: the listener is started only once every modifier has run,
\* and no field of the descriptor changes after it has started.
C9_Original ==
    [][/\ ListenerStarts => next' > Len(cfg.registrationModifiers)
       /\ listeners # <<>> => registration' = registration
      ]_vars

----------------------------------------------------------------------------
(* C10 *)

\* C10: the port in the health-check URL of the submitted descriptor is the
\* port the health listener is bound to.
C10_UrlPortIsListenerPort ==
    \A k \in 1..Len(listeners) :
        (Returned /\ listeners[k].state = "listening" /\ HasHTTPCheck(submitted[1])) =>
            submitted[1].Check.HTTP.port = listeners[k].port

====
